---- MODULE Spec2Model ----
(***************************************************************************)
(* Sort and panel engine of stata-gtools: the 64-bit hash sorts of         *)
(* src/plugin/parallel/hash/gtools_sort.c (prefix gf) and the radix sort   *)
(* and panel builders of src/plugin/hash/gtools_sort.c (prefix mf).        *)
(* The reducers of src/plugin/tools/gtools_math.c are modelled further     *)
(* down, with doubles as exact rationals.                                  *)
(*                                                                         *)
(* Widths.  TLC's integers are 32 bits wide, so the 64-bit keys are        *)
(* modelled with a narrower byte: a byte of the model has ByteBits bits    *)
(* (8 in the source) and every width of the source is kept as the same     *)
(* number of bytes: uint64_t is 8 bytes (arithmetic modulo                 *)
(* 2^(8*ByteBits)), a 16-bit digit is 2 bytes (0xffff + 1 = 2^(2*ByteBits)),*)
(* an 8-bit digit is 1 byte, the dispatcher's threshold pow(2, 24) is 3    *)
(* bytes, and the key 2^40 is 5 bytes.  Arrays are functions on 0..N-1, as *)
(* in C.                                                                   *)
(***************************************************************************)
EXTENDS Integers, Sequences, FiniteSets, TLC

\* Bits in one byte of the model (the source's byte has 8).
ByteBits == 1
\* Largest array length N explored.
MaxN == 3

RECURSIVE Pow2(_)
Pow2(n) == IF n <= 0 THEN 1 ELSE 2 * Pow2(n - 1)

\* uint64_t arithmetic wraps modulo 2^64 (8 bytes).
UINT64_MOD == Pow2(8 * ByteBits)
U64(x) == ((x % UINT64_MOD) + UINT64_MOD) % UINT64_MOD

\* x >> bits
Shr(x, bits) == x \div Pow2(bits)

\* uint64_t ctol = pow(2, 24): 3 bytes.
ctol == Pow2(3 * ByteBits)
\* GT_size size = 65536: one 16-bit (2-byte) digit.
size == Pow2(2 * ByteBits)
\* 0xff + 1: one 8-bit (1-byte) digit.
size8 == Pow2(ByteBits)

\* Return code of sf_oom_error (any non-zero code).
sf_oom_error == 1702

Zeros(n) == [i \in 0..(n - 1) |-> 0]
Identity(n) == [i \in 0..(n - 1) |-> i]

\* GTOOLS_MIN (hash, N, min, i) / mf_min: smallest element, scanning from i = 1.
RECURSIVE MinLoop(_, _, _, _)
MinLoop(x, n, i, m) ==
    IF i >= n THEN m ELSE MinLoop(x, n, i + 1, IF m > x[i] THEN x[i] ELSE m)
GTOOLS_MIN(x, n) == MinLoop(x, n, 1, x[0])

\* GTOOLS_MAX (hash, N, max, i) / mf_max: largest element, scanning from i = 1.
RECURSIVE MaxLoop(_, _, _, _)
MaxLoop(x, n, i, m) ==
    IF i >= n THEN m ELSE MaxLoop(x, n, i + 1, IF m < x[i] THEN x[i] ELSE m)
GTOOLS_MAX(x, n) == MaxLoop(x, n, 1, x[0])

(***************************************************************************)
(* gf_counting_sort.  count has range + 1 cells (calloc(range + 1)); a     *)
(* cell outside it is out of bounds.  An out-of-bounds increment is        *)
(* dropped, an out-of-bounds read for element i yields the arbitrary value *)
(* g[i], and a store to hash[s], index[s] with s >= N is dropped: each is  *)
(* undefined behaviour and sets ub.                                        *)
(***************************************************************************)

\* for (i = 0; i < N; i++) count[ xcopy[i] = (hash[i] + 1 - min) ]++;
RECURSIVE cs_freq(_, _, _, _)
cs_freq(count, xcopy, i, n) ==
    IF i >= n THEN count
    ELSE cs_freq(IF xcopy[i] \in DOMAIN count
                 THEN [count EXCEPT ![xcopy[i]] = @ + 1]
                 ELSE count,
                 xcopy, i + 1, n)

\* for (i = 1; i < range; i++) count[i] += count[i - 1];
RECURSIVE cs_cumul(_, _, _)
cs_cumul(count, i, range) ==
    IF i >= range THEN count
    ELSE cs_cumul([count EXCEPT ![i] = @ + count[i - 1]], i + 1, range)

\* for (i = 0; i < N; i++) {
\*     index[ s = count[xcopy[i] - 1]++ ] = icopy[i];
\*     hash[s] = xcopy[i] - 1 + min; }
RECURSIVE cs_copyback(_, _, _, _, _, _, _)
cs_copyback(st, xcopy, icopy, min, g, i, n) ==
    IF i >= n THEN st
    ELSE LET c   == U64(xcopy[i] - 1)
             inb == c \in DOMAIN st.count
             s   == IF inb THEN st.count[c] ELSE g[i]
             cnt == IF inb THEN [st.count EXCEPT ![c] = @ + 1] ELSE st.count
             ok  == s \in DOMAIN st.hash
         IN cs_copyback(
                [hash  |-> IF ok THEN [st.hash EXCEPT ![s] = U64(xcopy[i] - 1 + min)]
                                 ELSE st.hash,
                 index |-> IF ok THEN [st.index EXCEPT ![s] = icopy[i]]
                                 ELSE st.index,
                 count |-> cnt,
                 ub    |-> st.ub \/ ~inb \/ ~ok],
                xcopy, icopy, min, g, i + 1, n)

gf_counting_sort(hash_, index_, n, min, max, g) ==
    LET range  == U64(max - min + 1)
        xcopy  == [i \in 0..(n - 1) |-> U64(hash_[i] + 1 - min)]
        count0 == Zeros(U64(range + 1))
        count1 == cs_freq(count0, xcopy, 0, n)
        count2 == cs_cumul(count1, 1, range)
        out    == cs_copyback([hash |-> hash_, index |-> index_,
                               count |-> count2, ub |-> FALSE],
                              xcopy, index_, min, g, 0, n)
    IN [hash  |-> out.hash,
        index |-> out.index,
        ub    |-> out.ub \/ (\E i \in 0..(n - 1) : xcopy[i] \notin DOMAIN count0)]

(***************************************************************************)
(* Radix sorts: histogram, exclusive prefix sum, stable scatter.           *)
(***************************************************************************)

\* byte = (hash[i] >> bits) & mask, with mask + 1 = sz
Digit(x, bits, sz) == Shr(x, bits) % sz

\* for (i = 0; i < N; i++) { byte = (hash[i] >> bits) & 0xffff; counts[byte]++; }
RECURSIVE radix_counts(_, _, _, _, _, _)
radix_counts(counts, hash_, n, bits, sz, i) ==
    IF i >= n THEN counts
    ELSE radix_counts([counts EXCEPT ![Digit(hash_[i], bits, sz)] = @ + 1],
                      hash_, n, bits, sz, i + 1)

\* for (i = 0; i < size; i++) { byte = offset + counts[i]; counts[i] = offset; offset = byte; }
RECURSIVE radix_offsets(_, _, _, _)
radix_offsets(counts, sz, i, offset) ==
    IF i >= sz THEN counts
    ELSE radix_offsets([counts EXCEPT ![i] = offset], sz, i + 1, offset + counts[i])

\* for (i = 0; i < N; i++) { byte = (src[i] >> bits) & mask;
\*     dst[counts[byte]] = src[i]; dsti[counts[byte]] = srci[i]; counts[byte]++; }
RECURSIVE radix_pass(_, _, _, _, _, _, _)
radix_pass(src, dst, counts, n, bits, sz, i) ==
    IF i >= n THEN dst
    ELSE LET byte == Digit(src.hash[i], bits, sz)
             p    == counts[byte]
         IN radix_pass(src,
                       [hash  |-> [dst.hash  EXCEPT ![p] = src.hash[i]],
                        index |-> [dst.index EXCEPT ![p] = src.index[i]]],
                       [counts EXCEPT ![byte] = @ + 1],
                       n, bits, sz, i + 1)

\* One table of gf_radix_sort16 / gf_radix_sort8: counts of the digit at `bits`,
\* converted to offsets.
radix_table(hash_, n, bits, sz) ==
    radix_offsets(radix_counts(Zeros(sz), hash_, n, bits, sz, 0), sz, 0, 0)

\* The four redistribution passes of gf_radix_sort16 and gf_radix_psort16,
\* given the four offset tables c4 (lowest digit) .. c1 (highest digit).
radix_bit16(hash_, index_, n, c4, c3, c2, c1) ==
    LET orig == [hash |-> hash_, index |-> index_]
        cpy  == [hash |-> Zeros(n), index |-> Zeros(n)]
        p4   == radix_pass(orig, cpy,  c4, n, 0,            size, 0)
        p3   == radix_pass(p4,   orig, c3, n, 2 * ByteBits, size, 0)
        p2   == radix_pass(p3,   p4,   c2, n, 4 * ByteBits, size, 0)
        p1   == radix_pass(p2,   p3,   c1, n, 6 * ByteBits, size, 0)
    IN p1

gf_radix_sort16(hash_, index_, n) ==
    radix_bit16(hash_, index_, n,
                radix_table(hash_, n, 0,            size),
                radix_table(hash_, n, 2 * ByteBits, size),
                radix_table(hash_, n, 4 * ByteBits, size),
                radix_table(hash_, n, 6 * ByteBits, size))

gf_radix_sort8(hash_, index_, n) ==
    LET orig == [hash |-> hash_, index |-> index_]
        cpy  == [hash |-> Zeros(n), index |-> Zeros(n)]
        T(k) == radix_table(hash_, n, k * ByteBits, size8)
        p8   == radix_pass(orig, cpy,  T(0), n, 0,            size8, 0)
        p7   == radix_pass(p8,   orig, T(1), n, ByteBits,     size8, 0)
        p6   == radix_pass(p7,   p8,   T(2), n, 2 * ByteBits, size8, 0)
        p5   == radix_pass(p6,   p7,   T(3), n, 3 * ByteBits, size8, 0)
        p4   == radix_pass(p5,   p6,   T(4), n, 4 * ByteBits, size8, 0)
        p3   == radix_pass(p4,   p5,   T(5), n, 5 * ByteBits, size8, 0)
        p2   == radix_pass(p3,   p4,   T(6), n, 6 * ByteBits, size8, 0)
        p1   == radix_pass(p2,   p3,   T(7), n, 7 * ByteBits, size8, 0)
    IN p1


(***************************************************************************)
(* mf_radix_sort_index (hash/gtools_sort.c), as mf_panelsetup128 calls it: *)
(* raw = 0, dshift = RADIX_SHIFT.                                          *)
(***************************************************************************)
\* RADIX_SHIFT of gtools_sort.h: the bits of one digit (16: 2 bytes).
RADIX_SHIFT == 2 * ByteBits

\* Freq count: count[ xmod[i] = ((outx[i] = x[i]) / exp) % shift ]++;
RECURSIVE rsp_freq(_, _, _, _, _, _)
rsp_freq(count, x, n, exp, shift, i) ==
    IF i >= n THEN count
    ELSE rsp_freq([count EXCEPT ![(x[i] \div exp) % shift] = @ + 1],
                  x, n, exp, shift, i + 1)

\* for (i = 1; i < shift; i++) count[i] += count[i - 1];
RECURSIVE rsp_cumul(_, _, _)
rsp_cumul(count, i, shift) ==
    IF i >= shift THEN count
    ELSE rsp_cumul([count EXCEPT ![i] = @ + count[i - 1]], i + 1, shift)

\* for (i = N - 1; i >= 0; i--) {
\*     index[c = count[xmod[i]]-- - 1] = outi[i]; x[c] = outx[i]; }
RECURSIVE rsp_copyback(_, _, _, _, _, _)
rsp_copyback(st, outx, outi, exp, shift, i) ==
    IF i < 0 THEN st
    ELSE LET xmod == (outx[i] \div exp) % shift
             c    == st.count[xmod] - 1
         IN rsp_copyback([x     |-> [st.x EXCEPT ![c] = outx[i]],
                          index |-> [st.index EXCEPT ![c] = outi[i]],
                          count |-> [st.count EXCEPT ![xmod] = @ - 1]],
                         outx, outi, exp, shift, i - 1)

mf_radix_sort_index_pass(x, index_, n, exp, shift) ==
    LET count == rsp_cumul(rsp_freq(Zeros(shift), x, n, exp, shift, 0), 1, shift)
        out   == rsp_copyback([x |-> x, index |-> index_, count |-> count],
                              x, index_, exp, shift, n - 1)
    IN [x |-> out.x, index |-> out.index]

\* An allocation failure inside mf_radix_sort_index: calloc of buf fails in
\* pass number pass of the radix branch, or (pass = -1) in
\* mf_counting_sort_index; NoFail when every allocation succeeds.
NoFail == [pass |-> -1, buf |-> "none"]
PassBufs == {"xmod", "outx", "outi"}

\* The state between passes: x, index, the return code and the buffers not freed.
rsi_state(x, index_) == [x |-> x, index |-> index_, rc |-> 0, live |-> {}]

\* do { pass } while ( (max > (exp *= shift)) & (nloops++ < loops) );
\* A pass whose allocation fails returns sf_oom_error before it touches x.
RECURSIVE rsi_loop(_, _, _, _, _, _, _, _)
RECURSIVE rsi_while(_, _, _, _, _, _, _, _)
rsi_while(st, n, exp, shift, max, nloops, loops, fail) ==
    IF (max > exp) /\ (nloops < loops)
    THEN rsi_loop(st, n, exp, shift, max, nloops + 1, loops, fail)
    ELSE st
rsi_loop(st, n, exp, shift, max, nloops, loops, fail) ==
    IF fail.pass = nloops
    THEN [st EXCEPT !.rc = sf_oom_error, !.live = PassBufs \ {fail.buf}]
    ELSE rsi_while(rsi_state(mf_radix_sort_index_pass(st.x, st.index, n, exp, shift).x,
                             mf_radix_sort_index_pass(st.x, st.index, n, exp, shift).index),
                   n, U64(exp * shift), shift, max, nloops, loops, fail)

\* mf_counting_sort_index: the loops of gf_counting_sort, on x and index.
mf_counting_sort_index(x, index_, n, min, max, g) ==
    LET r == gf_counting_sort(x, index_, n, min, max, g)
    IN [x |-> r.hash, index |-> r.index, ub |-> r.ub, rc |-> 0, live |-> {}]

\* The result of the passes: x and its index as the last pass left them.
rsi_result(r) == [x |-> r.x, index |-> r.index, ub |-> FALSE, rc |-> r.rc,
                  live |-> r.live]

\* if ( range < ctol ) mf_counting_sort_index (...) else do { pass } while (...)
\* index[i] = i has been stored before either.
rsi_dispatch(x, n, max, min, shift, loops, g, fail) ==
    IF U64(max - min + 1) < ctol
    THEN IF fail.pass = -1 /\ fail.buf # "none"
         THEN [x |-> x, index |-> Identity(n), ub |-> FALSE, rc |-> sf_oom_error,
               live |-> {"xcopy", "icopy", "count"} \ {fail.buf}]
         ELSE mf_counting_sort_index(x, Identity(n), n, min, max, g)
    ELSE rsi_result(rsi_loop(rsi_state(x, Identity(n)), n, 1, shift, max, 0, loops, fail))

\* mf_radix_sort_index (x, index, N, dshift, 0, 0): raw = 0, so
\* loops = 64 / dshift - 1 and shift = pow(2, dshift); index[i] = i on entry.
mf_radix_sort_index(x, n, dshift, g, fail) ==
    rsi_dispatch(x, n, GTOOLS_MAX(x, n), GTOOLS_MIN(x, n),
                 Pow2(dshift), ((8 * ByteBits) \div dshift) - 1, g, fail)

(***************************************************************************)
(* Panel builders.  info_largest has N + 1 cells; the element h1[i] with   *)
(* i >= N lies outside the caller's array and reads as the arbitrary value *)
(* v; a store to a cell of info_largest above N is out of bounds (ub) and  *)
(* is recorded in oob.  The loop state st holds i, l, el, info_largest,    *)
(* index, collision64, oob, ub (undefined behaviour met), gread (g was     *)
(* read), null (the builder returns NULL) and live (buffers not freed).    *)
(***************************************************************************)
H1At(h1, n, i, v) == IF i < n THEN h1[i] ELSE v

Put(f, k, val) == IF k \in DOMAIN f THEN [f EXCEPT ![k] = val] ELSE (k :> val) @@ f

\* int mf_check_allequal (uint64_t hash[], size_t start, size_t end)
mf_check_allequal(hash_, start, end) ==
    \A i \in (start + 1)..(end - 1) : hash_[i] = hash_[start]

\* A refinement that also declares a group boundary after the block's first row.
ps128_splice_splits(st, srt, start_l, n) ==
    [st EXCEPT !.collision64 = @ + 1,
               !.info_largest = Put(@, st.l, start_l + 1),
               !.l = @ + 1]

\* Lines 258-265: ix_c[j] = index[ix_l[j] + start_l]; index[j] = ix_c[j - start_l];
ps128_splice(st, srt, start_l, n) ==
    [st EXCEPT !.collision64 = @ + 1,
               !.ub = @ \/ srt.ub,
               !.gread = @ \/ srt.ub,
               !.index = [j \in 0..(n - 1) |->
                             IF start_l <= j /\ j < st.i
                             THEN st.index[srt.index[j - start_l] + start_l]
                             ELSE st.index[j]]]

\* Lines 253-256: h2_l[j - start_l] = h2[j]; mf_radix_sort_index (h2_l, ix_l, range_l, ...)
ps128_sort(h2_, start_l, range_l, g) ==
    mf_radix_sort_index([j \in 0..(range_l - 1) |-> h2_[j + start_l]],
                        range_l, RADIX_SHIFT, g, NoFail)

\* Lines 240-266: the block [info_largest[l - 1], i) of mf_panelsetup128.
ps128_block(st, h2_, n, o, g) ==
    IF mf_check_allequal(h2_, st.info_largest[st.l - 1], st.i)
    THEN st
    ELSE IF o \in {"ix_l", "ix_c", "h2_l"}
    THEN [st EXCEPT !.collision64 = @ + 1,
                    !.null = TRUE,
                    !.live = @ \cup ({"ix_l", "ix_c", "h2_l"} \ {o})]
    ELSE ps128_splice(st,
                      ps128_sort(h2_, st.info_largest[st.l - 1],
                                 st.i - st.info_largest[st.l - 1], g),
                      st.info_largest[st.l - 1], n)

\* A boundary store that leaves el at the first key.
ps_mark_keeps_el(st, x, n) ==
    IF st.null THEN st
    ELSE [st EXCEPT !.info_largest = Put(@, st.l, st.i),
                    !.oob = IF st.l > n THEN @ \cup {st.l} ELSE @,
                    !.l = @ + 1]

\* info_largest[l++] = i; el = h1[i];
ps_mark(st, x, n) ==
    IF st.null THEN st
    ELSE [st EXCEPT !.info_largest = Put(@, st.l, st.i),
                    !.oob = IF st.l > n THEN @ \cup {st.l} ELSE @,
                    !.l = @ + 1,
                    !.el = x]

\* if (h1[i] != el) { [the block of mf_panelsetup128;] info_largest[l++] = i; el = h1[i]; }
\* with128 tells mf_panelsetup128 (TRUE) from mf_panelsetup (FALSE); x is h1[i].
ps_step(st, x, h2_, n, o, g, with128) ==
    IF x = st.el THEN st
    ELSE IF with128 THEN ps_mark(ps128_block(st, h2_, n, o, g), x, n)
    ELSE ps_mark(st, x, n)

\* i++; (h1[i] was read: out of bounds when i >= N)
ps_advance(st, n) == [st EXCEPT !.i = @ + 1, !.ub = @ \/ st.i >= n]

\* do { ... } while( i < N );
RECURSIVE ps_loop(_, _, _, _, _, _, _, _)
RECURSIVE ps_while(_, _, _, _, _, _, _, _)
ps_while(st, h1, h2_, n, v, o, g, with128) ==
    IF st.i < n /\ ~st.null THEN ps_loop(st, h1, h2_, n, v, o, g, with128) ELSE st
ps_loop(st, h1, h2_, n, v, o, g, with128) ==
    ps_while(ps_advance(ps_step(st, H1At(h1, n, st.i, v), h2_, n, o, g, with128), n),
             h1, h2_, n, v, o, g, with128)

\* info_largest[l] = N; *J = l; info = calloc(l + 1); copy; free (info_largest);
ps_finish(st, n, o) ==
    IF st.null
    THEN [null |-> TRUE, J |-> 1, info |-> Zeros(0), index |-> st.index,
          collision64 |-> st.collision64, oob |-> st.oob, ub |-> st.ub,
          gread |-> st.gread, live |-> st.live]
    ELSE [null |-> o = "info",
          J |-> st.l,
          info |-> IF o = "info" THEN Zeros(0)
                   ELSE [k \in 0..st.l |-> Put(st.info_largest, st.l, n)[k]],
          index |-> st.index,
          collision64 |-> st.collision64,
          oob |-> IF st.l > n THEN st.oob \cup {st.l} ELSE st.oob,
          ub |-> st.ub \/ st.l > n,
          gread |-> st.gread,
          live |-> IF o = "info" THEN {"info_largest"} ELSE {}]

\* The body of both panel builders.  Result: null (NULL was returned), J, info,
\* index, collision64, oob, ub, gread, live.
ps_build(h1, h2_, index_, n, v, o, g, with128) ==
    IF o = "info_largest"
    THEN [null |-> TRUE, J |-> 1, info |-> Zeros(0), index |-> index_,
          collision64 |-> 0, oob |-> {}, ub |-> FALSE, gread |-> FALSE, live |-> {}]
    ELSE ps_finish(ps_loop([i |-> 1, l |-> 1, el |-> h1[0],
                            info_largest |-> Zeros(n + 1), index |-> index_,
                            collision64 |-> 0, oob |-> {}, ub |-> FALSE,
                            gread |-> FALSE, null |-> FALSE,
                            live |-> {"info_largest"}],
                           h1, h2_, n, v, o, g, with128),
                   n, o)

\* size_t * mf_panelsetup (uint64_t h1[], const size_t N, size_t * J)
mf_panelsetup(h1, n, v, o) ==
    ps_build(h1, Zeros(n), Zeros(n), n, v, o, Zeros(n), FALSE)

\* size_t * mf_panelsetup128 (h1, h2, index, N, J)
mf_panelsetup128(h1, h2_, index_, n, v, o, g) ==
    ps_build(h1, h2_, index_, n, v, o, g, TRUE)

(***************************************************************************)
(* Reducers of tools/gtools_math.c.  A double is modelled exactly, as the  *)
(* record [num, den, root]: the rational num / den, or its square root     *)
(* when root is TRUE.  Integers and the averages, means and standard       *)
(* deviations of small integers are exact in a double as well.  The slice  *)
(* is v[start .. end-1].  A reducer yields [val, ub]: ub tells that val    *)
(* rests on undefined behaviour (the conversion of a negative double to    *)
(* size_t) and is arbitrary.                                               *)
(***************************************************************************)
\* The double with integer value x.
D(x) == [num |-> x, den |-> 1, root |-> FALSE]
\* A value computed without undefined behaviour / after it.
Defined(x) == [val |-> x, ub |-> FALSE]
Undefined == [val |-> D(0), ub |-> TRUE]

\* a == b on doubles
DEq(a, b) == a.root = b.root /\ a.num * b.den = b.num * a.den
\* a - b on rationals
DSub(a, b) == [num |-> a.num * b.den - b.num * a.den, den |-> a.den * b.den,
               root |-> FALSE]

\* for (i = start; i < end; i++) vsum += v[i];
RECURSIVE dsum_loop(_, _, _, _)
dsum_loop(v, i, end, vsum) ==
    IF i >= end THEN vsum ELSE dsum_loop(v, i + 1, end, vsum + v[i])
mf_array_dsum_range(v, start, end) == D(dsum_loop(v, start, end, 0))

\* return (mf_array_dsum_range(v, start, end) / (end - start));
mf_array_dmean_range(v, start, end) ==
    [num |-> dsum_loop(v, start, end, 0), den |-> end - start, root |-> FALSE]

\* for (i = start; i < end; i++) vvar += SQUARE(v[i] - vmean);  with
\* v[i] - vmean = (n * v[i] - vsum) / n: the sum of the numerators' squares.
RECURSIVE dsd_loop(_, _, _, _, _, _)
dsd_loop(v, i, end, n, vsum, acc) ==
    IF i >= end THEN acc
    ELSE dsd_loop(v, i + 1, end, n, vsum,
                  acc + (n * v[i] - vsum) * (n * v[i] - vsum))

\* return (sqrt(vvar / (end - start - 1)));
mf_array_dsd_range(v, start, end) ==
    [num  |-> dsd_loop(v, start, end, end - start, dsum_loop(v, start, end, 0), 0),
     den  |-> (end - start) * (end - start) * (end - start - 1),
     root |-> TRUE]

\* for (i = start + 1; i < end; ++i) if (min > v[i]) min = v[i];
RECURSIVE dmin_loop(_, _, _, _)
dmin_loop(v, i, end, min) ==
    IF i >= end THEN min
    ELSE dmin_loop(v, i + 1, end, IF min > v[i] THEN v[i] ELSE min)
\* A minimum that is the slice's first element.
dmin_takes_first(v, start, end) == D(v[start])

mf_array_dmin_range(v, start, end) == D(dmin_loop(v, start + 1, end, v[start]))

\* for (i = start + 1; i < end; ++i) if (max < v[i]) max = v[i];
RECURSIVE dmax_loop(_, _, _, _)
dmax_loop(v, i, end, max) ==
    IF i >= end THEN max
    ELSE dmax_loop(v, i + 1, end, IF max < v[i] THEN v[i] ELSE max)
mf_array_dmax_range(v, start, end) == D(dmax_loop(v, start + 1, end, v[start]))

\* mf_qselect_range (v, left, right, k) of qselect.c: the k-th (0-based) order
\* statistic of v[left .. right-1].
mf_qselect_range(v, left, right, k) ==
    CHOOSE x \in {v[i] : i \in left..(right - 1)} :
        /\ Cardinality({i \in left..(right - 1) : v[i] < x}) <= k
        /\ k < Cardinality({i \in left..(right - 1) : v[i] <= x})

\* A selection that never averages.
dq_select_no_average(v, start, end, quantile, n, qth, q) == D(q)

\* A selection that does not average at the maximum.
dq_select_max_alone(v, start, end, quantile, n, qth, q) ==
    IF qth * (quantile.den * 100) = quantile.num * n /\ qth # n - 1
    THEN [num |-> q + mf_qselect_range(v, start, end, qth - 1), den |-> 2,
          root |-> FALSE]
    ELSE D(q)

\* Lines 137-144: q = dmax ? max : qselect(qth);
\* if ( (double) qth == (quantile * N / 100) ) { q += qselect(qth - 1); q /= 2; }
dq_select(v, start, end, quantile, n, qth, q) ==
    IF qth * (quantile.den * 100) = quantile.num * n
    THEN [num |-> q + mf_qselect_range(v, start, end, qth - 1), den |-> 2,
          root |-> FALSE]
    ELSE D(q)

\* Lines 113-144, with N = end - start and qth = floor(quantile * N / 100).
\* A negative floor converted to size_t is undefined; qth is used from N >= 3.
dq_cases(v, start, end, quantile, n, qth) ==
    IF n = 1 THEN Defined(D(v[start]))
    ELSE IF n = 2
    THEN IF quantile.num > 50 * quantile.den
         THEN Defined(D(IF v[start] > v[end - 1] THEN v[start] ELSE v[end - 1]))
         ELSE IF quantile.num < 50 * quantile.den
         THEN Defined(D(IF v[start] > v[end - 1] THEN v[end - 1] ELSE v[start]))
         ELSE Defined([num |-> v[start] + v[end - 1], den |-> 2, root |-> FALSE])
    ELSE IF qth < 0 THEN Undefined
    ELSE IF qth = 0 THEN Defined(mf_array_dmin_range(v, start, end))
    ELSE Defined(dq_select(v, start, end, quantile, n, qth,
                           IF qth = n - 1
                           THEN dmax_loop(v, start + 1, end, v[start])
                           ELSE mf_qselect_range(v, start, end, qth)))

\* double mf_array_dquantile_range (double v[], start, end, const double quantile)
mf_array_dquantile_range(v, start, end, quantile) ==
    dq_cases(v, start, end, quantile, end - start,
             (quantile.num * (end - start)) \div (quantile.den * 100))

mf_array_dmedian_range(v, start, end) ==
    mf_array_dquantile_range(v, start, end, D(50))

\* return (quantile(75) - quantile(25));
mf_array_diqr_range(v, start, end) ==
    Defined(DSub(mf_array_dquantile_range(v, start, end, D(75)).val,
                 mf_array_dquantile_range(v, start, end, D(25)).val))

\* Reducer names, and the percentile strings explored.
Names == {"sum", "mean", "sd", "max", "min", "count", "percent", "median",
          "iqr", "first", "firstnm", "last", "lastnm"}
Percentiles == {"10", "25", "75", "90"}

\* atof (fname): the number a percentile string spells; 0 for a name.
atof(fname) ==
    CASE fname = "10" -> D(10)
      [] fname = "25" -> D(25)
      [] fname = "75" -> D(75)
      [] fname = "90" -> D(90)
      [] OTHER -> D(0)

\* double mf_switch_fun (char * fname, double v[], start, end)
mf_switch_fun(fname, v, start, end) ==
    CASE fname = "sum"    -> Defined(mf_array_dsum_range(v, start, end))
      [] fname = "mean"   -> Defined(mf_array_dmean_range(v, start, end))
      [] fname = "sd"     -> Defined(mf_array_dsd_range(v, start, end))
      [] fname = "max"    -> Defined(mf_array_dmax_range(v, start, end))
      [] fname = "min"    -> Defined(mf_array_dmin_range(v, start, end))
      [] fname = "median" -> mf_array_dmedian_range(v, start, end)
      [] fname = "iqr"    -> mf_array_diqr_range(v, start, end)
      [] OTHER -> IF atof(fname).num > 0
                  THEN mf_array_dquantile_range(v, start, end, atof(fname))
                  ELSE Defined(D(0))

\* double mf_code_fun (char * fname)
mf_code_fun(fname) ==
    CASE fname = "sum"     -> D(-1)
      [] fname = "mean"    -> D(-2)
      [] fname = "sd"      -> D(-3)
      [] fname = "max"     -> D(-4)
      [] fname = "min"     -> D(-5)
      [] fname = "count"   -> D(-6)
      [] fname = "percent" -> D(-7)
      [] fname = "median"  -> D(50)
      [] fname = "iqr"     -> D(-9)
      [] fname = "first"   -> D(-10)
      [] fname = "firstnm" -> D(-11)
      [] fname = "last"    -> D(-12)
      [] fname = "lastnm"  -> D(-13)
      [] OTHER -> IF atof(fname).num > 0 THEN atof(fname) ELSE D(0)

\* double mf_switch_fun_code (double fcode, double v[], start, end)
mf_switch_fun_code(fcode, v, start, end) ==
    CASE fcode = D(-1) -> Defined(mf_array_dsum_range(v, start, end))
      [] fcode = D(-2) -> Defined(mf_array_dmean_range(v, start, end))
      [] fcode = D(-3) -> Defined(mf_array_dsd_range(v, start, end))
      [] fcode = D(-4) -> Defined(mf_array_dmax_range(v, start, end))
      [] fcode = D(-5) -> Defined(mf_array_dmin_range(v, start, end))
      [] fcode = D(-9) -> mf_array_diqr_range(v, start, end)
      [] OTHER -> mf_array_dquantile_range(v, start, end, fcode)

(***************************************************************************)
(* State.                                                                  *)
(***************************************************************************)
VARIABLES
    hash,        \* the caller's key array (h1 for the panel builders)
    index,       \* the caller's index array
    N,           \* their length
    hash_in,     \* hash on entry to the call
    index_in,    \* index on entry to the call
    call,        \* the entry point the caller invoked
    pc,          \* position of the main thread
    rc,          \* return code of the call
    branch,      \* branch the dispatcher took: "counting", "radix" or "none"
    copy_hash,   \* gf_sort_hash: copy of hash, sorted by gf_radix_psort16
    copy_index,  \* gf_sort_hash: copy of index
    pcounts,     \* gf_radix_psort16: pinfo[t].counts, the table of thread t
    tpc,         \* position of each gf_radix_counts16 worker thread
    i_main,      \* gf_radix_psort16: loop counter i of the create and join loops
    live,        \* scratch buffers allocated and not freed
    failed,      \* the allocation that failed in the call, or "none"
    h2,          \* second half of the 128-bit hash
    info,        \* info array handed back by the panel builders
    J,           \* *J
    collision64, \* mf_panelsetup128: collision counter
    oob,         \* cells of info_largest written out of bounds
    slice,       \* gtools_math: the array v
    slice_start, \* gtools_math: start
    slice_end,   \* gtools_math: end
    fun_name,    \* gtools_math: fname, the reducer asked for
    pquantile,   \* gtools_math: quantile passed to mf_array_dquantile_range
    result       \* gtools_math: the double returned

sortVars  == <<hash, index, N, hash_in, index_in, call, pc, rc, branch,
               copy_hash, copy_index, pcounts, tpc, i_main, live, failed>>
panelVars == <<h2, info, J, collision64, oob>>
mathVars  == <<slice, slice_start, slice_end, fun_name, pquantile, result>>
vars      == <<sortVars, panelVars, mathVars>>

Threads == 0..3

\* Keys explored: the two ends of the 64-bit range, 2^32 (4 bytes, a power of
\* the digit base), and 2^40, 2^40 + 1 (5 bytes).
Keys == {0, Pow2(4 * ByteBits), Pow2(5 * ByteBits), Pow2(5 * ByteBits) + 1,
         UINT64_MOD - 1}

NoPanel ==
    /\ h2 = Zeros(0)
    /\ info = Zeros(0)
    /\ J = 0
    /\ collision64 = 0
    /\ oob = {}

NoMath ==
    /\ slice = Zeros(0)
    /\ slice_start = 0
    /\ slice_end = 0
    /\ fun_name = "none"
    /\ pquantile = D(0)
    /\ result = D(0)

NoThreads ==
    /\ copy_hash = Zeros(0)
    /\ copy_index = Zeros(0)
    /\ pcounts = [t \in Threads |-> Zeros(0)]
    /\ tpc = [t \in Threads |-> "idle"]
    /\ i_main = 0

\* The caller holds N >= 1 keys and index[i] = i.
SortInit ==
    /\ N \in 1..MaxN
    /\ hash \in [0..(N - 1) -> Keys]
    /\ index = Identity(N)
    /\ hash_in = hash
    /\ index_in = index
    /\ call = "none"
    /\ pc = "idle"
    /\ rc = 0
    /\ branch = "none"
    /\ live = {}
    /\ failed = "none"
    /\ NoThreads
    /\ NoPanel
    /\ NoMath

(***************************************************************************)
(* Allocation.  At most one allocation of a call fails; o names it, or is  *)
(* "none".  A failed allocation that the code checks returns sf_oom_error; *)
(* one that it does not check is dereferenced as NULL and the process      *)
(* crashes.                                                                *)
(***************************************************************************)
CountingBufs == {"xcopy", "icopy", "count"}
Sort8Bufs    == {"hcopy", "ixcopy"}
Sort16Checked   == {"hcopy", "ixcopy"}
Sort16Unchecked == {"counts", "counts->c4", "counts->c3", "counts->c2", "counts->c1"}
PsortChecked    == {"hcopy", "ixcopy"}
PsortUnchecked  == {"pcounts4", "pcounts3", "pcounts2", "pcounts1", "pinfo"}
CopyBufs     == {"copy_hash", "copy_index"}

\* Buffers of routine `who` as they are named in live.
Bufs(who, names) == {<<who, b>> : b \in names}

\* A dispatcher that compares the largest key, not the range, with ctol.
sort_hash_by_magnitude(hash_, n) == GTOOLS_MAX(hash_, n) < ctol

\* uint64_t range = max - min + 1; if ( range < ctol )
gf_sort_hash_range(hash_, n) == U64(GTOOLS_MAX(hash_, n) - GTOOLS_MIN(hash_, n) + 1)
gf_sort_hash_counting(hash_, n) == gf_sort_hash_range(hash_, n) < ctol

\* Values an out-of-bounds read of count can yield for each element: a position
\* of the output (0..N-1) or anything beyond it (N); read only when ub.
Garbage(n, ub) == IF ub THEN [0..(n - 1) -> 0..n] ELSE {Zeros(n)}
\* After undefined behaviour the process may crash (TRUE) or go on (FALSE).
Outcomes(ub) == IF ub THEN BOOLEAN ELSE {FALSE}

\* Return from the call with code r and the caller's arrays as given.
Return(r, h, ix, lv) ==
    /\ pc' = "done"
    /\ rc' = r
    /\ hash' = h
    /\ index' = ix
    /\ live' = lv

\* The process dies (NULL dereference, or a crash on an out-of-bounds access).
Crash(lv) ==
    /\ pc' = "crashed"
    /\ live' = lv
    /\ UNCHANGED <<rc, hash, index>>

(***************************************************************************)
(* gf_sort_hash, counting branch (lines 31-44) with gf_counting_sort.      *)
(***************************************************************************)
Call_gf_sort_hash_counting ==
    /\ pc = "idle"
    /\ gf_sort_hash_counting(hash, N)
    /\ call' = "gf_sort_hash"
    /\ branch' = "counting"
    /\ \E o \in CountingBufs \cup {"none"} :
       \E g \in Garbage(N, o = "none" /\ gf_sort_hash_range(hash, N) = 0) :
       \E crash \in Outcomes(o = "none" /\ gf_sort_hash_range(hash, N) = 0) :
          /\ failed' = o
          /\ LET r == gf_counting_sort(hash, index, N,
                                       GTOOLS_MIN(hash, N), GTOOLS_MAX(hash, N), g)
             IN IF o # "none"
                   THEN Return(sf_oom_error, hash, index,
                               Bufs("gf_counting_sort", CountingBufs \ {o}))
                   ELSE IF crash
                   THEN Crash(Bufs("gf_counting_sort", CountingBufs))
                   ELSE Return(0, r.hash, r.index, {})
    /\ UNCHANGED <<N, hash_in, index_in, copy_hash, copy_index, pcounts, tpc, i_main>>
    /\ UNCHANGED <<panelVars, mathVars>>

(***************************************************************************)
(* gf_radix_psort16.  The main thread allocates, creates the four workers  *)
(* (lines 404-408), joins them in order (410-415), redistributes (417-446) *)
(* and frees (448-454).  It sorts copy_hash, copy_index when gf_sort_hash  *)
(* calls it, and hash, index when the caller does.                         *)
(***************************************************************************)
PHash  == IF call = "gf_sort_hash" THEN copy_hash  ELSE hash
PIndex == IF call = "gf_sort_hash" THEN copy_index ELSE index

\* Lines 372-387: the allocations and the two checks.
psort16_enter(o, held) ==
    IF o \in PsortChecked
    THEN /\ pc' = "done"
         /\ rc' = sf_oom_error
         /\ live' = held \cup Bufs("gf_radix_psort16", (PsortChecked \cup PsortUnchecked) \ {o})
         /\ UNCHANGED <<pcounts, tpc, i_main>>
    ELSE IF o \in PsortUnchecked
    THEN /\ pc' = "crashed"
         /\ rc' = rc
         /\ live' = held \cup Bufs("gf_radix_psort16", (PsortChecked \cup PsortUnchecked) \ {o})
         /\ UNCHANGED <<pcounts, tpc, i_main>>
    ELSE /\ pc' = "create"
         /\ rc' = rc
         /\ live' = held \cup Bufs("gf_radix_psort16", PsortChecked \cup PsortUnchecked)
         /\ pcounts' = [t \in Threads |-> Zeros(size)]
         /\ tpc' = [t \in Threads |-> "idle"]
         /\ i_main' = 0

Call_gf_radix_psort16 ==
    /\ pc = "idle"
    /\ call' = "gf_radix_psort16"
    /\ \E o \in PsortChecked \cup PsortUnchecked \cup {"none"} :
          failed' = o /\ psort16_enter(o, {})
    /\ UNCHANGED <<hash, index, N, hash_in, index_in, branch, copy_hash, copy_index>>
    /\ UNCHANGED <<panelVars, mathVars>>

\* gf_sort_hash, radix branch, up to the creation of the workers (lines 45-57).
Call_gf_sort_hash_radix ==
    /\ pc = "idle"
    /\ ~gf_sort_hash_counting(hash, N)
    /\ call' = "gf_sort_hash"
    /\ branch' = "radix"
    /\ \E o \in CopyBufs \cup PsortChecked \cup PsortUnchecked \cup {"none"} :
          /\ failed' = o
          /\ IF o \in CopyBufs
             THEN /\ pc' = "crashed"
                  /\ live' = Bufs("gf_sort_hash", CopyBufs \ {o})
                  /\ UNCHANGED <<rc, copy_hash, copy_index, pcounts, tpc, i_main>>
             ELSE /\ copy_hash' = hash
                  /\ copy_index' = index
                  /\ psort16_enter(o, Bufs("gf_sort_hash", CopyBufs))
    /\ UNCHANGED <<hash, index, N, hash_in, index_in>>
    /\ UNCHANGED <<panelVars, mathVars>>

\* pinfo[i].thread = i; pthread_create(&threads[i], NULL, gf_radix_counts16, &pinfo[i]);
psort16_create ==
    /\ pc = "create"
    /\ tpc' = [tpc EXCEPT ![i_main] = "zero"]
    /\ i_main' = IF i_main = 3 THEN 0 ELSE i_main + 1
    /\ pc' = IF i_main = 3 THEN "join" ELSE "create"
    /\ UNCHANGED <<hash, index, N, hash_in, index_in, call, rc, branch,
                   copy_hash, copy_index, pcounts, live>>
    /\ UNCHANGED <<panelVars, mathVars, failed>>

\* gf_radix_counts16, lines 468-470: for (i = 0; i < pinfo->size; i++) pinfo->counts[i] = 0;
counts16_zero(t) ==
    /\ tpc[t] = "zero"
    /\ pcounts' = [pcounts EXCEPT ![t] = Zeros(size)]
    /\ tpc' = [tpc EXCEPT ![t] = "count"]
    /\ UNCHANGED <<hash, index, N, hash_in, index_in, call, pc, rc, branch,
                   copy_hash, copy_index, i_main, live>>
    /\ UNCHANGED <<panelVars, mathVars, failed>>

\* gf_radix_counts16, lines 466-483: bits = 16 * pinfo->thread; the histogram of that digit.
counts16_count(t) ==
    /\ tpc[t] = "count"
    /\ pcounts' = [pcounts EXCEPT
                     ![t] = radix_counts(pcounts[t], PHash, N, 2 * ByteBits * t, size, 0)]
    /\ tpc' = [tpc EXCEPT ![t] = "offset"]
    /\ UNCHANGED <<hash, index, N, hash_in, index_in, call, pc, rc, branch,
                   copy_hash, copy_index, i_main, live>>
    /\ UNCHANGED <<panelVars, mathVars, failed>>

\* gf_radix_counts16, lines 485-491: counts to running offsets, and the thread ends.
counts16_offsets(t) ==
    /\ tpc[t] = "offset"
    /\ pcounts' = [pcounts EXCEPT ![t] = radix_offsets(pcounts[t], size, 0, 0)]
    /\ tpc' = [tpc EXCEPT ![t] = "done"]
    /\ UNCHANGED <<hash, index, N, hash_in, index_in, call, pc, rc, branch,
                   copy_hash, copy_index, i_main, live>>
    /\ UNCHANGED <<panelVars, mathVars, failed>>

gf_radix_counts16 == \E t \in Threads : counts16_zero(t) \/ counts16_count(t) \/ counts16_offsets(t)

\* A join loop that does not wait for the worker.
psort16_join_no_wait ==
    /\ pc = "join"
    /\ i_main' = IF i_main = 3 THEN 0 ELSE i_main + 1
    /\ pc' = IF i_main = 3 THEN "radix" ELSE "join"
    /\ UNCHANGED <<hash, index, N, hash_in, index_in, call, rc, branch,
                   copy_hash, copy_index, pcounts, tpc, live>>
    /\ UNCHANGED <<panelVars, mathVars, failed>>

\* pthread_join(threads[i], NULL)
psort16_join ==
    /\ pc = "join"
    /\ tpc[i_main] = "done"
    /\ i_main' = IF i_main = 3 THEN 0 ELSE i_main + 1
    /\ pc' = IF i_main = 3 THEN "radix" ELSE "join"
    /\ UNCHANGED <<hash, index, N, hash_in, index_in, call, rc, branch,
                   copy_hash, copy_index, pcounts, tpc, live>>
    /\ UNCHANGED <<panelVars, mathVars, failed>>

\* gf_radix_psort16, lines 417-456; then gf_sort_hash goes on to line 60.
gf_radix_psort16(hash_, index_, n, tables) ==
    radix_bit16(hash_, index_, n, tables[0], tables[1], tables[2], tables[3])

psort16_radix ==
    /\ pc = "radix"
    /\ LET r == gf_radix_psort16(PHash, PIndex, N, pcounts)
           freed == Bufs("gf_radix_psort16", PsortChecked \cup PsortUnchecked)
       IN IF call = "gf_sort_hash"
          THEN /\ copy_hash' = r.hash
               /\ copy_index' = r.index
               /\ pc' = "sort16"
               /\ live' = live \ freed
               /\ UNCHANGED <<hash, index, rc>>
          ELSE /\ Return(0, r.hash, r.index, live \ freed)
               /\ UNCHANGED <<copy_hash, copy_index>>
    /\ UNCHANGED <<N, hash_in, index_in, call, branch, pcounts, tpc, i_main>>
    /\ UNCHANGED <<panelVars, mathVars, failed>>

(***************************************************************************)
(* gf_radix_sort16 and gf_radix_sort8 with their allocations.              *)
(***************************************************************************)
sort16_run(o, held) ==
    IF o \in Sort16Checked
    THEN Return(sf_oom_error, hash, index,
                held \cup Bufs("gf_radix_sort16", Sort16Checked \ {o}))
    ELSE IF o \in Sort16Unchecked
    THEN Crash(held \cup Bufs("gf_radix_sort16", Sort16Checked))
    ELSE LET r == gf_radix_sort16(hash, index, N)
         IN Return(0, r.hash, r.index, held)

\* gf_sort_hash, lines 60-68: the single-threaded sort of the originals.
sort_hash_sort16 ==
    /\ pc = "sort16"
    /\ \E o \in Sort16Checked \cup Sort16Unchecked \cup {"none"} :
          failed' = o /\ sort16_run(o, live)
    /\ UNCHANGED <<N, hash_in, index_in, call, branch, copy_hash, copy_index,
                   pcounts, tpc, i_main>>
    /\ UNCHANGED <<panelVars, mathVars>>

Call_gf_radix_sort16 ==
    /\ pc = "idle"
    /\ call' = "gf_radix_sort16"
    /\ \E o \in Sort16Checked \cup Sort16Unchecked \cup {"none"} :
          failed' = o /\ sort16_run(o, {})
    /\ UNCHANGED <<N, hash_in, index_in, branch, copy_hash, copy_index,
                   pcounts, tpc, i_main>>
    /\ UNCHANGED <<panelVars, mathVars>>

Call_gf_radix_sort8 ==
    /\ pc = "idle"
    /\ call' = "gf_radix_sort8"
    /\ \E o \in Sort8Bufs \cup {"none"} :
          /\ failed' = o
          /\ IF o # "none"
             THEN Return(sf_oom_error, hash, index, Bufs("gf_radix_sort8", Sort8Bufs \ {o}))
             ELSE LET r == gf_radix_sort8(hash, index, N)
                  IN Return(0, r.hash, r.index, {})
    /\ UNCHANGED <<N, hash_in, index_in, branch, copy_hash, copy_index,
                   pcounts, tpc, i_main>>
    /\ UNCHANGED <<panelVars, mathVars>>

(***************************************************************************)
(* mf_radix_sort_index (hash/gtools_sort.c) called on the caller's arrays, *)
(* with dshift = RADIX_SHIFT and raw = 0.                                  *)
(***************************************************************************)
\* The allocation that fails, if any: in mf_counting_sort_index, or in one of
\* the at most 64 / dshift passes.
MfFails(counting) ==
    IF counting
    THEN {NoFail} \cup {[pass |-> -1, buf |-> b] : b \in CountingBufs}
    ELSE {NoFail} \cup {[pass |-> k, buf |-> b] : k \in 0..3, b \in PassBufs}

mf_return(r, fail, crash) ==
    /\ failed' = (IF r.rc # 0 THEN fail.buf ELSE "none")
    /\ IF crash
       THEN Crash(Bufs("mf_counting_sort_index", CountingBufs))
       ELSE Return(r.rc, r.x, r.index, Bufs("mf_radix_sort_index", r.live))

Call_mf_radix_sort_index ==
    /\ pc = "idle"
    /\ call' = "mf_radix_sort_index"
    /\ \E fail \in MfFails(gf_sort_hash_counting(hash, N)) :
       \E g \in Garbage(N, mf_radix_sort_index(hash, N, RADIX_SHIFT, Zeros(N), fail).ub) :
       \E crash \in Outcomes(mf_radix_sort_index(hash, N, RADIX_SHIFT, g, fail).ub) :
          mf_return(mf_radix_sort_index(hash, N, RADIX_SHIFT, g, fail), fail, crash)
    /\ UNCHANGED <<N, hash_in, index_in, branch, copy_hash, copy_index,
                   pcounts, tpc, i_main>>
    /\ UNCHANGED <<panelVars, mathVars>>

SortNext ==
    \/ Call_mf_radix_sort_index
    \/ Call_gf_sort_hash_counting
    \/ Call_gf_sort_hash_radix
    \/ Call_gf_radix_psort16
    \/ psort16_create
    \/ gf_radix_counts16
    \/ psort16_join
    \/ psort16_radix
    \/ sort_hash_sort16
    \/ Call_gf_radix_sort16
    \/ Call_gf_radix_sort8

SortSpec == SortInit /\ [][SortNext]_vars


(***************************************************************************)
(* The panel builders.  The caller passes h1 sorted (non-decreasing), as   *)
(* the builders require, with any h2, and as index a permutation of the    *)
(* rows: the identity or its reverse.                                      *)
(***************************************************************************)
Reversed(n) == [i \in 0..(n - 1) |-> n - 1 - i]

H1Keys == {7, 8, 9}
H2Keys == {0, 1, 2, UINT64_MOD - 1}

PanelInit ==
    /\ N \in 1..MaxN
    /\ hash \in {h \in [0..(N - 1) -> H1Keys] : \A k \in 0..(N - 2) : h[k] <= h[k + 1]}
    /\ h2 \in [0..(N - 1) -> H2Keys]
    /\ index \in {Identity(N), Reversed(N)}
    /\ hash_in = hash
    /\ index_in = index
    /\ call = "none"
    /\ pc = "idle"
    /\ rc = 0
    /\ branch = "none"
    /\ live = {}
    /\ failed = "none"
    /\ NoThreads
    /\ info = Zeros(0)
    /\ J = 0
    /\ collision64 = 0
    /\ oob = {}
    /\ NoMath

\* Values an out-of-bounds read of count can yield while a block is sorted by
\* h2.  A block that is sorted ends before N, so it has at most N - 1 rows: a
\* value is a position of the block (0..N-2) or anything beyond it (N-1).
BlockGarbage(n, ub) == IF ub THEN [0..(n - 2) -> 0..(n - 1)] ELSE {Zeros(n)}

\* What h1[N] can read as: the memory after the caller's N keys.
Beyond(n) == IF n = 1 THEN H1Keys ELSE {0}

\* The builder returns r (rc = 1 stands for a NULL return), or the process crashes.
PanelReturn(r, ix, crash) ==
    IF crash
    THEN /\ pc' = "crashed"
         /\ UNCHANGED <<rc, index, info, J, collision64, oob, live>>
    ELSE /\ pc' = "done"
         /\ rc' = IF r.null THEN 1 ELSE 0
         /\ index' = ix
         /\ info' = r.info
         /\ J' = r.J
         /\ collision64' = r.collision64
         /\ oob' = r.oob
         /\ live' = Bufs(call', r.live)

PanelReturn128(r, crash) == PanelReturn(r, r.index, crash)

Call_mf_panelsetup ==
    /\ pc = "idle"
    /\ call' = "mf_panelsetup"
    /\ \E o \in {"none", "info_largest", "info"}, v \in Beyond(N) :
          failed' = (IF mf_panelsetup(hash, N, v, o).null THEN o ELSE "none") /\
          \E crash \in Outcomes(mf_panelsetup(hash, N, v, o).ub) :
             PanelReturn(mf_panelsetup(hash, N, v, o), index, crash)
    /\ UNCHANGED <<hash, N, hash_in, index_in, branch, copy_hash, copy_index,
                   pcounts, tpc, i_main, h2>>
    /\ UNCHANGED mathVars

Call_mf_panelsetup128 ==
    /\ pc = "idle"
    /\ call' = "mf_panelsetup128"
    /\ \E o \in {"none", "info_largest", "ix_l", "ix_c", "h2_l", "info"}, v \in Beyond(N) :
          failed' = (IF mf_panelsetup128(hash, h2, index, N, v, o, Zeros(N)).null
                     THEN o ELSE "none") /\
          \E g \in BlockGarbage(N, mf_panelsetup128(hash, h2, index, N, v, o, Zeros(N)).gread) :
          \E crash \in Outcomes(mf_panelsetup128(hash, h2, index, N, v, o, g).ub) :
             PanelReturn128(mf_panelsetup128(hash, h2, index, N, v, o, g), crash)
    /\ UNCHANGED <<hash, N, hash_in, index_in, branch, copy_hash, copy_index,
                   pcounts, tpc, i_main, h2>>
    /\ UNCHANGED mathVars

PanelNext ==
    \/ Call_mf_panelsetup
    \/ Call_mf_panelsetup128

PanelSpec == PanelInit /\ [][PanelNext]_vars

(***************************************************************************)
(* The reducers.  The caller holds an array v of doubles and asks for a    *)
(* reducer of the slice v[start .. end-1], of 1..MaxSlice elements; an     *)
(* element before the slice holds Sentinel.                                *)
(***************************************************************************)
\* Largest slice length explored.
MaxSlice == 4

Values == {1, 2, 4}
Sentinel == 9

\* Quantiles explored: 100 * q / n for 0 < q < n, and some percentages.
Quantiles ==
    {[num |-> 100 * q, den |-> n, root |-> FALSE] : q \in 1..(MaxSlice - 1),
                                                    n \in 2..MaxSlice}
    \cup {D(k) : k \in {1, 25, 50, 60, 75, 99}}

MathInit ==
    /\ slice_start \in {0, 1}
    /\ \E n \in 1..MaxSlice :
          /\ slice_end = slice_start + n
          /\ \E s \in [0..(n - 1) -> Values] :
                slice = [i \in 0..(slice_start + n - 1) |->
                            IF i < slice_start THEN Sentinel ELSE s[i - slice_start]]
    /\ fun_name = "none"
    /\ pquantile = D(0)
    /\ result = D(0)
    /\ hash = Zeros(0)
    /\ index = Zeros(0)
    /\ N = 0
    /\ hash_in = hash
    /\ index_in = index
    /\ call = "none"
    /\ pc = "idle"
    /\ rc = 0
    /\ branch = "none"
    /\ live = {}
    /\ failed = "none"
    /\ NoThreads
    /\ NoPanel

\* What a double can hold after undefined behaviour.
Arbitrary(r) == IF r.ub THEN {D(x) : x \in Values \cup {0}} ELSE {r.val}

\* The reducer returns r.val, or after undefined behaviour anything, or crashes.
MathReturn(r) ==
    /\ \E crash \in Outcomes(r.ub), x \in Arbitrary(r) :
          IF crash
          THEN pc' = "crashed" /\ result' = result
          ELSE pc' = "done" /\ result' = x
    /\ UNCHANGED <<hash, index, N, hash_in, index_in, rc, branch, copy_hash,
                   copy_index, pcounts, tpc, i_main, live, failed>>
    /\ UNCHANGED panelVars
    /\ UNCHANGED <<slice, slice_start, slice_end>>

Call_mf_array_dquantile_range ==
    /\ pc = "idle"
    /\ call' = "mf_array_dquantile_range"
    /\ fun_name' = fun_name
    /\ \E q \in Quantiles :
          /\ q.num < 100 * q.den
          /\ pquantile' = q
          /\ MathReturn(mf_array_dquantile_range(slice, slice_start, slice_end, q))

Call_mf_switch_fun ==
    /\ pc = "idle"
    /\ call' = "mf_switch_fun"
    /\ pquantile' = pquantile
    /\ \E f \in Names \cup Percentiles :
          /\ fun_name' = f
          /\ MathReturn(mf_switch_fun(f, slice, slice_start, slice_end))

\* mf_switch_fun_code (mf_code_fun (fname), v, start, end)
Call_mf_switch_fun_code ==
    /\ pc = "idle"
    /\ call' = "mf_switch_fun_code"
    /\ \E f \in Names \cup Percentiles :
          /\ fun_name' = f
          /\ pquantile' = mf_code_fun(f)
          /\ MathReturn(mf_switch_fun_code(mf_code_fun(f), slice, slice_start, slice_end))

MathNext ==
    \/ Call_mf_array_dquantile_range
    \/ Call_mf_switch_fun
    \/ Call_mf_switch_fun_code

MathSpec == MathInit /\ [][MathNext]_vars

(***************************************************************************)
(* Properties of the sorts.                                                *)
(***************************************************************************)
\* The array <<a, b, ...>> as a C array indexed from 0.
Arr(seq) == [i \in 0..(Len(seq) - 1) |-> seq[i + 1]]

IsPermutation(ix, n) ==
    /\ \A k \in 0..(n - 1) : ix[k] \in 0..(n - 1)
    /\ \A v \in 0..(n - 1) : \E k \in 0..(n - 1) : ix[k] = v

NonDecreasing(h, n) == \A k \in 0..(n - 2) : h[k] <= h[k + 1]

Returned0 == pc = "done" /\ rc = 0
SortHashReturned0 == call = "gf_sort_hash" /\ Returned0

\* max(H) - min(H) + 1 as a number, not as a uint64_t.
TrueWidth(h, n) ==
    LET vals == {h[k] : k \in 0..(n - 1)}
        hi   == CHOOSE v \in vals : \A w \in vals : w <= v
        lo   == CHOOSE v \in vals : \A w \in vals : v <= w
    IN hi - lo + 1

\* C1: after gf_sort_hash returns 0, on either branch, index is a permutation
\* of 0..N-1 and hash[k] = hash_in[index[k]] at every position k.
C1_PermutationIntegrity ==
    SortHashReturned0 =>
        /\ IsPermutation(index, N)
        /\ \A k \in 0..(N - 1) : hash[k] = hash_in[index[k]]

\* C2: after gf_sort_hash returns 0 the key array is non-decreasing,
\* whichever sort the dispatcher chose.
C2_Monotone == SortHashReturned0 => NonDecreasing(hash, N)

\* C3: every sort primitive is stable: for input positions i < j with equal
\* keys, the entry index carried at i ends up at a smaller output position
\* than the entry it carried at j.
C3_Stable ==
    (Returned0 /\ (branch = "counting"
                   \/ call \in {"gf_radix_sort8", "gf_radix_sort16", "gf_radix_psort16"})) =>
        \A i, j \in 0..(N - 1) :
            (i < j /\ hash_in[i] = hash_in[j]) =>
                \E p, q \in 0..(N - 1) :
                    p < q /\ index[p] = index_in[i] /\ index[q] = index_in[j]

\* C4: on the same input gf_counting_sort, gf_radix_sort16 and gf_radix_psort16
\* produce identical hash and index, and on the radix branch of gf_sort_hash
\* the sorted copies equal the sorted originals.
C4_SortsAgree ==
    /\ (Returned0 /\ (branch = "counting" \/ call = "gf_radix_psort16")) =>
           LET r == gf_radix_sort16(hash_in, index_in, N)
           IN hash = r.hash /\ index = r.index
    /\ (SortHashReturned0 /\ branch = "radix") =>
           (copy_hash = hash /\ copy_index = index)

\* C5: the dispatcher chooses counting sort exactly when the true width
\* max(H) - min(H) + 1 of the key range is below 2^24, radix sort otherwise.
C5_DispatchByTrueWidth ==
    call = "gf_sort_hash" =>
        (branch = "counting" <=> TrueWidth(hash_in, N) < ctol)

\* The radix-range seed scenario: H = [2^40, 2^40 + 1, 2^40], I = [0, 1, 2].
C6_H   == Arr(<<Pow2(5 * ByteBits), Pow2(5 * ByteBits) + 1, Pow2(5 * ByteBits)>>)
C6_Out == Arr(<<Pow2(5 * ByteBits), Pow2(5 * ByteBits), Pow2(5 * ByteBits) + 1>>)
C6_Case == SortHashReturned0 /\ N = 3 /\ hash_in = C6_H /\ index_in = Arr(<<0, 1, 2>>)

\* C6 as stated: on that input gf_sort_hash takes the radix branch and
\* returns H = [2^40, 2^40, 2^40 + 1], I = [0, 2, 1].
C6_Original ==
    C6_Case => (branch = "radix" /\ hash = C6_Out /\ index = Arr(<<0, 2, 1>>))

\* C6 amended: on that input gf_sort_hash takes the counting-sort branch
\* (range = 2 < 2^24) and returns H = [2^40, 2^40, 2^40 + 1], I = [0, 2, 1].
C6_Amended ==
    C6_Case => (branch = "counting" /\ hash = C6_Out /\ index = Arr(<<0, 2, 1>>))

C6_Witness == C6_Case

\* C15: on every exit path of every sort and panel routine, every scratch
\* buffer allocated during the call has been freed: no scratch allocation is
\* live at return.
C15_NoLiveScratch == pc = "done" => live = {}

\* C16: in gf_counting_sort, gf_radix_sort16, gf_radix_psort16 and
\* mf_radix_sort_index, whenever a scratch allocation fails the routine
\* returns a non-zero code and hash and index hold their values on entry.
C16_FailureReturnsUntouched ==
    ((branch = "counting"
      \/ call \in {"gf_radix_sort16", "gf_radix_psort16", "mf_radix_sort_index"})
     /\ failed # "none") =>
        /\ pc = "done"
        /\ rc # 0
        /\ hash = hash_in
        /\ index = index_in

\* A step of a worker changes the table of that worker and no other.
C17_OwnTable ==
    \A t \in Threads :
        (pc # "idle" /\ pcounts'[t] # pcounts[t]) =>
            /\ tpc[t] \in {"zero", "count", "offset"}
            /\ tpc'[t] # tpc[t]
            /\ \A u \in Threads \ {t} : pcounts'[u] = pcounts[u]

\* When the first redistribution pass starts every worker has finished and
\* table t is the exclusive prefix sum of the histogram of digit t of hash.
C17_Barrier ==
    pc = "radix" =>
        \A t \in Threads :
            /\ tpc[t] = "done"
            /\ pcounts[t] = radix_table(PHash, N, 2 * ByteBits * t, size)

\* C17: in gf_radix_psort16, under every interleaving of the four workers, no
\* two workers write the same histogram cell, and when the first
\* redistribution pass starts all four have finished and each table is the
\* exclusive prefix sum of the histogram of hash for its own digit.
C17_DisjointAndJoined == [][C17_OwnTable]_vars /\ []C17_Barrier

\* The four workers were joined on three keys whose digits differ.
C17_Witness ==
    /\ call = "gf_radix_psort16"
    /\ pc = "radix"
    /\ N = 3
    /\ \A t \in Threads : tpc[t] = "done"
    /\ pcounts[2] # pcounts[0]

\* C19: on its radix branch mf_radix_sort_index returns x non-decreasing with
\* index permuted alike, for every input, also when the largest key is an
\* exact power of the digit base or exp wraps on the last pass.
C19_RadixBranchSorts ==
    (call = "mf_radix_sort_index" /\ Returned0 /\ ~gf_sort_hash_counting(hash_in, N)) =>
        /\ NonDecreasing(hash, N)
        /\ IsPermutation(index, N)
        /\ \A k \in 0..(N - 1) : hash[k] = hash_in[index[k]]

\* C20: whenever gf_sort_hash selects counting sort, the histogram has
\* max - min + 2 cells and every index hash[i] + 1 - min that gf_counting_sort
\* reads or increments lies inside it, for every 64-bit input.
C20_HistogramInBounds ==
    (call = "gf_sort_hash" /\ branch = "counting") =>
        /\ U64(gf_sort_hash_range(hash_in, N) + 1) = TrueWidth(hash_in, N) + 1
        /\ \A i \in 0..(N - 1) :
              U64(hash_in[i] + 1 - GTOOLS_MIN(hash_in, N))
                  < U64(gf_sort_hash_range(hash_in, N) + 1)

(***************************************************************************)
(* Properties of the panel builders.                                       *)
(***************************************************************************)
\* The builder c returned an info array (not NULL).
PanelDone(c) == call = c /\ pc = "done" /\ rc = 0

\* C7: for every non-decreasing key array of length N >= 2, mf_panelsetup
\* returns J and info[0..J] with info[0] = 0, info[J] = N, info strictly
\* increasing, every slice hash[info[g]..info[g+1]) constant, adjacent slices
\* holding different keys, and J equal to the number of distinct keys.
C7_PanelInfo ==
    (PanelDone("mf_panelsetup") /\ N >= 2) =>
        /\ J >= 1
        /\ DOMAIN info = 0..J
        /\ info[0] = 0
        /\ info[J] = N
        /\ \A g \in 0..(J - 1) : info[g] < info[g + 1]
        /\ \A g \in 0..(J - 1) :
              \A k \in info[g]..(info[g + 1] - 1) : hash[k] = hash[info[g]]
        /\ \A g \in 1..(J - 1) : hash[info[g] - 1] # hash[info[g]]
        /\ J = Cardinality({hash[k] : k \in 0..(N - 1)})

\* mf_panelsetup returned a partition into two groups of three rows.
C7_Witness == PanelDone("mf_panelsetup") /\ N = 3 /\ J = 2

\* C8: for N = 1 both panel builders return J = 1 and info = [0, 1], whatever
\* lies at positions >= N, and no info cell beyond index N is written.
C8_SingleRow ==
    ((PanelDone("mf_panelsetup") \/ PanelDone("mf_panelsetup128")) /\ N = 1) =>
        /\ J = 1
        /\ info = Arr(<<0, 1>>)
        /\ oob = {}

\* Position at which the caller passed row r in index.
PosIn(r) == CHOOSE k \in 0..(N - 1) : index_in[k] = r

\* C9: after mf_panelsetup128 returns, inside every group
\* [info[g], info[g+1]), the last one included, the rows referenced by index
\* are ordered by non-decreasing h2, and rows with equal h2 keep their
\* pre-call relative order.
C9_GroupsOrderedByH2 ==
    PanelDone("mf_panelsetup128") =>
        \A g \in 0..(J - 1) :
            \A p, q \in info[g]..(info[g + 1] - 1) :
                p < q =>
                    \/ h2[PosIn(index[p])] < h2[PosIn(index[q])]
                    \/ /\ h2[PosIn(index[p])] = h2[PosIn(index[q])]
                       /\ PosIn(index[p]) < PosIn(index[q])

\* C10: the collision count mf_panelsetup128 reports equals the number of
\* blocks of equal h1, the last one included, whose h2 values are not all
\* equal.
C10_CollisionCount ==
    PanelDone("mf_panelsetup128") =>
        collision64 = Cardinality({g \in 0..(J - 1) :
                                      \E p, q \in info[g]..(info[g + 1] - 1) :
                                          h2[p] # h2[q]})

\* C11: mf_panelsetup128 never splits a block on h2: for every non-decreasing
\* h1 of length N >= 2 and every h2 and index, it returns the same J and info
\* as mf_panelsetup applied to h1 alone.
C11_SameGroupsAsPanelsetup ==
    (PanelDone("mf_panelsetup128") /\ N >= 2) =>
        /\ J = mf_panelsetup(hash, N, 0, "none").J
        /\ info = mf_panelsetup(hash, N, 0, "none").info

\* mf_panelsetup128 refined a block by h2 and returned two groups.
C11_Witness ==
    PanelDone("mf_panelsetup128") /\ N = 3 /\ collision64 = 1 /\ J = 2

\* The blocks of equal h1: the maximal runs [a, b) of equal keys in hash.
H1Blocks ==
    {blk \in (0..(N - 1)) \X (1..N) :
        /\ blk[1] < blk[2]
        /\ \A k \in blk[1]..(blk[2] - 1) : hash[k] = hash[blk[1]]
        /\ (blk[1] = 0 \/ hash[blk[1] - 1] # hash[blk[1]])
        /\ (blk[2] = N \/ hash[blk[2]] # hash[blk[1]])}

\* Number of positions of [a, b) at which f holds r.
CountIn(f, a, b, r) == Cardinality({k \in a..(b - 1) : f[k] = r})

\* A return of mf_panelsetup128 (an info array or NULL) keeps hash and h2,
\* keeps index on every block whose h2 values are all equal, and holds in
\* every block the row indices it held before, each as often as before.
C21_Step ==
    (pc = "idle" /\ pc' = "done" /\ call' = "mf_panelsetup128") =>
        /\ hash' = hash
        /\ h2' = h2
        /\ \A blk \in H1Blocks :
              /\ mf_check_allequal(h2, blk[1], blk[2]) =>
                    \A k \in blk[1]..(blk[2] - 1) : index'[k] = index[k]
              /\ \A k \in blk[1]..(blk[2] - 1) :
                    /\ CountIn(index', blk[1], blk[2], index[k]) =
                          CountIn(index, blk[1], blk[2], index[k])
                    /\ CountIn(index', blk[1], blk[2], index'[k]) =
                          CountIn(index, blk[1], blk[2], index'[k])
        /\ {index'[k] : k \in 0..(N - 1)} = {index[k] : k \in 0..(N - 1)}

\* C21: mf_panelsetup128 never writes h1 or h2, leaves index[k] unchanged at
\* every position k of a block whose h2 values are all equal, and in a block
\* it refines only permutes the values of index inside that block, so index
\* holds the same set of row indices after the call as before.
C21_FrameOfIndex == [][C21_Step]_vars

(***************************************************************************)
(* Properties of the reducers.                                             *)
(***************************************************************************)
SliceN == slice_end - slice_start
\* V_sorted[k]: the k-th (0-based) order statistic of the slice.
VSorted(k) ==
    CHOOSE x \in {slice[i] : i \in slice_start..(slice_end - 1)} :
        /\ Cardinality({i \in slice_start..(slice_end - 1) : slice[i] < x}) <= k
        /\ k < Cardinality({i \in slice_start..(slice_end - 1) : slice[i] <= x})
\* (a + b) / 2
Average(a, b) == [num |-> a + b, den |-> 2, root |-> FALSE]

\* mf_array_dquantile_range returned, on a slice of N >= 3 with p in (0, 100).
QuantileDone ==
    /\ call = "mf_array_dquantile_range"
    /\ pc = "done"
    /\ SliceN >= 3
    /\ pquantile.num > 0
\* p * N / 100 is an integer; floor(p * N / 100).
PNExact == (pquantile.num * SliceN) % (pquantile.den * 100) = 0
PNFloor == (pquantile.num * SliceN) \div (pquantile.den * 100)

\* C12 as stated: for N >= 3 and 0 < q < N-1, mf_array_dquantile_range
\* called with p = 100*q/N returns the q-th order statistic V_sorted[q].
C12_Original ==
    (QuantileDone /\ PNExact /\ 0 < PNFloor /\ PNFloor < SliceN - 1) =>
        DEq(result, D(VSorted(PNFloor)))

\* C12 amended: for N >= 3 and 0 < q < N-1, mf_array_dquantile_range called
\* with p = 100*q/N returns the average of V_sorted[q-1] and V_sorted[q].
C12_Amended ==
    (QuantileDone /\ PNExact /\ 0 < PNFloor /\ PNFloor < SliceN - 1) =>
        DEq(result, Average(VSorted(PNFloor - 1), VSorted(PNFloor)))

\* The quantile 100*q/N was asked for where V_sorted[q-1] and V_sorted[q] differ.
C12_Witness ==
    /\ QuantileDone /\ PNExact /\ 0 < PNFloor /\ PNFloor < SliceN - 1
    /\ VSorted(PNFloor - 1) # VSorted(PNFloor)

\* C13 as stated: for N >= 3, p in (0,100) and q = floor(p*N/100): q = 0
\* gives the slice minimum and q = N-1 gives the slice maximum.
C13_Original ==
    QuantileDone =>
        /\ PNFloor = 0 => DEq(result, D(VSorted(0)))
        /\ PNFloor = SliceN - 1 => DEq(result, D(VSorted(SliceN - 1)))

\* C13 amended: q = 0 gives the slice minimum; q = N-1 gives the slice
\* maximum when p*N/100 is not an integer, and the average of the maximum and
\* V_sorted[N-2] when p*N/100 = N-1 exactly.
C13_Amended ==
    QuantileDone =>
        /\ PNFloor = 0 => DEq(result, D(VSorted(0)))
        /\ (PNFloor = SliceN - 1 /\ ~PNExact) => DEq(result, D(VSorted(SliceN - 1)))
        /\ (PNFloor = SliceN - 1 /\ PNExact) =>
              DEq(result, Average(VSorted(SliceN - 2), VSorted(SliceN - 1)))

\* q = N-1 was asked for with p*N/100 not an integer, on a slice whose two
\* largest elements differ.
C13_Witness ==
    /\ QuantileDone
    /\ PNFloor = SliceN - 1
    /\ ~PNExact
    /\ VSorted(SliceN - 2) # VSorted(SliceN - 1)

\* The reducer a name denotes, on the slice.
Denotes(f) ==
    CASE f = "sum"    -> mf_array_dsum_range(slice, slice_start, slice_end)
      [] f = "mean"   -> mf_array_dmean_range(slice, slice_start, slice_end)
      [] f = "sd"     -> mf_array_dsd_range(slice, slice_start, slice_end)
      [] f = "max"    -> D(VSorted(SliceN - 1))
      [] f = "min"    -> D(VSorted(0))
      [] f = "count"  -> D(SliceN)
      [] f = "median" -> mf_array_dquantile_range(slice, slice_start, slice_end, D(50)).val
      [] f = "iqr"    -> mf_array_diqr_range(slice, slice_start, slice_end).val
      [] f \in {"first", "firstnm"} -> D(slice[slice_start])
      [] f \in {"last", "lastnm"}   -> D(slice[slice_end - 1])
      [] OTHER -> mf_array_dquantile_range(slice, slice_start, slice_end, atof(f)).val

\* C14: for every name mf_code_fun encodes, mf_switch_fun_code applied to the
\* code returns the reducer the name denotes on the slice (percent aside, which
\* the slice alone does not determine), and the value mf_switch_fun returns
\* for the name.
C14_CodeDispatch ==
    (call = "mf_switch_fun_code" /\ pc = "done") =>
        /\ DEq(result, mf_switch_fun(fun_name, slice, slice_start, slice_end).val)
        /\ fun_name # "percent" => DEq(result, Denotes(fun_name))

\* C18: for N >= 3 and p in (0,100) with p*N/100 an integer q >= 1,
\* mf_array_dquantile_range returns the average of V_sorted[q] and
\* V_sorted[q-1], also when q = N-1.
C18_AverageAtInteger ==
    (QuantileDone /\ PNExact /\ PNFloor >= 1) =>
        DEq(result, Average(VSorted(PNFloor), VSorted(PNFloor - 1)))

\* p*N/100 = N-1 was asked for where the two largest elements differ.
C18_Witness ==
    /\ QuantileDone /\ PNExact /\ PNFloor = SliceN - 1
    /\ VSorted(SliceN - 2) # VSorted(SliceN - 1)

====
